---- MODULE Spec2Model ----
(***************************************************************************)
(* AI-Khabari: the /generate-news-audio request handler (backend.py), the  *)
(* news aggregator NewsScraper.scrape_news with its retry decorator and    *)
(* its shared rate limiter (news_scraper.py), and the broadcast composer   *)
(* and speech synthesizer it hands over to (utils.py).                     *)
(*                                                                         *)
(* Spec         one request, from NewsScraper() to the HTTP response.      *)
(* SpecLimiter  the class-level AsyncLimiter(5, 1) under concurrent        *)
(*              acquire calls of several requests.                         *)
(*                                                                         *)
(* Time is counted in ticks of time_period / max_rate = 0.2 s, the time    *)
(* in which the limiter's bucket leaks one permit.                         *)
(***************************************************************************)
EXTENDS Naturals, Sequences, FiniteSets

\* ------------------------------------------------------------ bounds
MaxTopics == 3
NumAcquirers == 7
MaxBackoffAttempt == 6
MaxItems == 11
MaxRunTopics == 1

TopicNames == {"A", "B"}

\* ------------------------------------------------------------ program constants
MaxRate == 5
TimePeriod == 1
MaxAttempts == 3
WaitMultiplier == 1
WaitMin == 2
WaitMax == 10
PacingSeconds == 1
HeadlineLimit == 10

\* ticks in one second: the bucket leaks max_rate / time_period permits a second
TicksPerSecond == MaxRate \div TimePeriod

\* ------------------------------------------------------------ provider answers
\* combined_headlines after a successful search: no items, or some items
HeadlineTexts == {"", "Title: Snippet"}
\* str(e) of a failed search call (httpx timeouts have an empty message)
SearchErrors == {"", "Server error 500"}
\* response.content of the summarizer's model call
SummaryTexts == {"", "Script"}
\* response.content of the composer's model call
BroadcastTexts == {"", "Broadcast"}
GroqCause == "rate limit"
ComposeError == "compose failed"
SynthError == "synthesis failed"
ClientOpenError == "client open failed"
ClientCloseError == "client close failed"
AudioPath == "audio/tts.mp3"

RECURSIVE SeqsUpTo(_, _)
SeqsUpTo(S, n) ==
  IF n = 0 THEN {<<>>}
  ELSE LET shorter == SeqsUpTo(S, n - 1)
       IN shorter \cup {Append(s, x) : s \in {t \in shorter : Len(t) = n - 1}, x \in S}

Max(a, b) == IF a >= b THEN a ELSE b
Min(a, b) == IF a <= b THEN a ELSE b

\* ------------------------------------------------------------ the results dict
\* A Python dict keeps insertion order; assigning to a key that is present
\* replaces its value in place. An entry is <<topic, value>> plus the line that
\* wrote it (kind: "summary" or "placeholder" from line 61, "failure" from 63).
Entry(k, v, kind) == [topic |-> k, value |-> v, kind |-> kind]

DictHas(d, k) == \E j \in 1..Len(d) : d[j].topic = k

DictIndex(d, k) == CHOOSE j \in 1..Len(d) : d[j].topic = k

DictSet(d, k, v, kind) ==
  IF DictHas(d, k)
  THEN [d EXCEPT ![DictIndex(d, k)] = Entry(k, v, kind)]
  ELSE Append(d, Entry(k, v, kind))

\* dict.get(k): the value, or None
None == [present |-> FALSE, value |-> ""]
DictGet(d, k) ==
  IF DictHas(d, k) THEN [present |-> TRUE, value |-> d[DictIndex(d, k)].value]
  ELSE None

Truthy(x) == x.present /\ x.value # ""

DictKeys(d) == [j \in 1..Len(d) |-> d[j].topic]

\* ------------------------------------------------------------ the rate limiter
\* aiolimiter's leaky bucket: _leak() lowers the level by elapsed * rate, not
\* below 0; has_capacity() is level + amount <= max_rate; acquire() adds amount.
\* faulty variant of Leak: the bucket does not leak
LeakNothing(lvl, ticks) == lvl

Leak(lvl, ticks) == IF lvl >= ticks THEN lvl - ticks ELSE 0

\* faulty variant of HasCapacity: one permit too many fits
HasCapacityOffByOne(lvl, amount) == lvl + amount <= MaxRate + 1

HasCapacity(lvl, amount) == lvl + amount <= MaxRate

\* ------------------------------------------------------------ the retry policy
RECURSIVE Pow2(_)
Pow2(n) == IF n = 0 THEN 1 ELSE 2 * Pow2(n - 1)

\* faulty variant of StopAfterAttempt: a 4th attempt is made
StopAfterAttemptOneMore(n) == n >= MaxAttempts + 1

\* stop_after_attempt(3)
StopAfterAttempt(n) == n >= MaxAttempts

\* faulty variant of WaitExponential: the exponent is the attempt number itself
WaitExponentialLateExponent(n) ==
  Max(Max(0, WaitMin), Min(WaitMultiplier * Pow2(n), WaitMax))

\* wait_exponential(multiplier=1, min=2, max=10), in seconds
WaitExponential(n) == Max(Max(0, WaitMin), Min(WaitMultiplier * Pow2(n - 1), WaitMax))

RetryErrorStr(e) == "RetryError[" \o e \o "]"

\* str(HTTPException(status_code=500, detail=...))
SummarizeErrorStr(cause) == "500: Groq error: " \o cause

VARIABLES
  serperKey,      \* os.getenv("SERPER_API_KEY") is set
  topics,         \* request.topics
  pc,             \* generate_news_audio: the statement about to run
  spc,            \* scrape_news: the statement about to run
  attempt_number, \* the retry decorator's attempt counter
  attemptLog,     \* per finished body execution: "ok" or the exception's text
  i,              \* the for loop's position in topics
  results,        \* scrape_news: the results dict
  headlines,      \* combined_headlines of the topic in hand
  lastOk,         \* the provider call made last returned without raising
  level,          \* NewsScraper._rate_limiter: the bucket's level
  permits,        \* permits granted to this request
  sleeps,         \* asyncio.sleep(1) calls completed
  searchCalls,    \* per topic position: client.post calls over the whole call
  summarizeCalls, \* per topic position: summarizer calls in this body execution
  news_data,      \* what scrape_news returned: the report
  topic_blocks,   \* generate_broadcast_news: the labeled blocks
  user_prompt,    \* the text sent to the composer's model
  composeCalls,   \* llm.invoke calls of the composer
  news_summary,   \* the composer's return value
  synthCalls,     \* text_to_audio_elevenlabs_sdk calls
  synthText,      \* the text handed to the synthesizer
  failedStage,    \* the stage whose exception reached line 52
  response,       \* the HTTP response of the request
  waitLog,        \* the waits slept between attempts, in seconds
  data,           \* SpecExtract: response.json() of a search call (line 45)
  items,          \* line 48
  headlineList,   \* line 49: the list named headlines
  combined_headlines, \* line 53
  summary,        \* line 56: what the summarizer returned last
  errorText,      \* line 62: str(e) of the exception caught last
  callLog,        \* per topic position: the provider calls of this body execution
  runs,           \* SpecRuns: per request in flight, the state of its scrape_news call
  acquired,       \* SpecLimiter: the acquire calls that were granted
  grantLog        \* SpecLimiter: permits granted at each of the last tick instants

vars == <<serperKey, topics, pc, spc, attempt_number, attemptLog, i, results,
          headlines, lastOk, level, permits, sleeps, searchCalls, summarizeCalls,
          news_data, topic_blocks, user_prompt, composeCalls, news_summary,
          synthCalls,
          synthText, failedStage, response, waitLog, data, items, headlineList,
          combined_headlines, summary, errorText, callLog, runs,
          acquired, grantLog>>

scrapeVars == <<callLog, errorText, summary, waitLog, spc, attempt_number, attemptLog, i, results, headlines, lastOk, level,
                permits, sleeps, searchCalls, summarizeCalls>>
composeVars == <<topic_blocks, user_prompt, composeCalls, news_summary>>
synthVars == <<synthCalls, synthText>>
limiterVars == <<acquired, grantLog>>
extractVars == <<data, items, headlineList, combined_headlines>>

Pending == [kind |-> "pending", status |-> 0, detail |-> "", body |-> ""]
\* HTTPException(status_code=500, detail=str(e))
ErrorResponse(e) == [kind |-> "error", status |-> 500, detail |-> e, body |-> ""]
\* Response(content=audio_bytes, media_type="audio/mpeg")
AudioResponse(path) == [kind |-> "audio", status |-> 200, detail |-> "", body |-> path]
\* the handler falls off its end: FastAPI answers 200 with null
NullResponse == [kind |-> "null", status |-> 200, detail |-> "", body |-> ""]

Zeros(n) == [j \in 1..n |-> 0]

Init ==
  /\ serperKey \in BOOLEAN
  /\ topics \in SeqsUpTo(TopicNames, MaxTopics)
  /\ pc = "new_scraper"
  /\ spc = "idle"
  /\ attempt_number = 0
  /\ attemptLog = <<>>
  /\ i = 0
  /\ results = <<>>
  /\ headlines = ""
  /\ lastOk = TRUE
  /\ level = 0
  /\ permits = 0
  /\ sleeps = 0
  /\ searchCalls = Zeros(Len(topics))
  /\ summarizeCalls = Zeros(Len(topics))
  /\ news_data = [news_analysis |-> <<>>]
  /\ topic_blocks = <<>>
  /\ user_prompt = ""
  /\ composeCalls = 0
  /\ news_summary = ""
  /\ synthCalls = 0
  /\ synthText = ""
  /\ failedStage = "none"
  /\ response = Pending
  /\ runs = <<>>
  /\ callLog = [j \in 1..Len(topics) |-> <<>>]
  /\ errorText = ""
  /\ summary = ""
  /\ data = <<>>
  /\ items = <<>>
  /\ headlineList = <<>>
  /\ combined_headlines = ""
  /\ waitLog = <<>>
  /\ acquired = {}
  /\ grantLog = <<>>

\* line 52-53: except Exception as e: raise HTTPException(500, detail=str(e))
Except(stage, e) ==
  /\ pc' = "done"
  /\ failedStage' = stage
  /\ response' = ErrorResponse(e)

\* ------------------------------------------------------------ NewsScraper()
NewScraperOk ==
  /\ pc = "new_scraper"
  /\ serperKey
  /\ pc' = "scrape"
  /\ spc' = "start"
  /\ attempt_number' = 1
  /\ UNCHANGED <<runs, callLog, errorText, summary, extractVars, waitLog, lastOk, serperKey, topics, attemptLog, i, results, headlines, level,
                 permits, sleeps, searchCalls, summarizeCalls, news_data,
                 composeVars, synthVars, failedStage, response, limiterVars>>

NewScraperRaise ==
  /\ pc = "new_scraper"
  /\ ~serperKey
  /\ Except("new_scraper", "Missing SERPER_API_KEY in environment")
  /\ UNCHANGED <<runs, extractVars, serperKey, topics, scrapeVars, news_data, composeVars,
                 synthVars, limiterVars>>

\* ------------------------------------------------------------ the retry decorator
\* An exception leaves the body of scrape_news (lines 26-30): tenacity records
\* the attempt, and either gives up with RetryError(last_attempt), which the
\* handler's except turns into the response, or waits and calls the body again.
BodyRaise(e) ==
  /\ attemptLog' = Append(attemptLog, e)
  /\ IF StopAfterAttempt(attempt_number)
     THEN /\ spc' = "raised"
          /\ Except("scrape", RetryErrorStr(e))
     ELSE /\ spc' = "wait"
          /\ UNCHANGED <<pc, failedStage, response>>

\* the wait between two attempts, then the next call of the body
RetryWait ==
  /\ pc = "scrape"
  /\ spc = "wait"
  /\ level' = Leak(level, WaitExponential(attempt_number) * TicksPerSecond)
  /\ attempt_number' = attempt_number + 1
  /\ spc' = "start"
  /\ waitLog' = Append(waitLog, WaitExponential(attempt_number))
  /\ UNCHANGED <<runs, callLog, errorText, summary, extractVars, lastOk, serperKey, topics, pc, attemptLog, i, results, headlines,
                 permits, sleeps, searchCalls, summarizeCalls, news_data,
                 composeVars, synthVars, failedStage, response, limiterVars>>

\* ------------------------------------------------------------ scrape_news
\* faulty variant of ClientOpenOk: a permit is acquired before the loop
ClientOpenOkAcquiresFirst ==
  /\ pc = "scrape"
  /\ spc = "start"
  /\ results' = <<>>
  /\ summarizeCalls' = Zeros(Len(topics))
  /\ i' = 1
  /\ HasCapacity(level, 1)
  /\ level' = level + 1
  /\ permits' = permits + 1
  /\ spc' = "loop"
  /\ callLog' = [j \in 1..Len(topics) |-> <<>>]
  /\ UNCHANGED <<runs, errorText, summary, extractVars, waitLog, lastOk, serperKey, topics, pc, attempt_number, attemptLog,
                 headlines, sleeps, searchCalls, news_data, composeVars,
                 synthVars, failedStage, response, limiterVars>>

\* faulty variant of ClientOpenOk: the dict of the attempt before is kept
ClientOpenOkKeepsResults ==
  /\ pc = "scrape"
  /\ spc = "start"
  /\ summarizeCalls' = Zeros(Len(topics))
  /\ i' = 1
  /\ spc' = "loop"
  /\ callLog' = [j \in 1..Len(topics) |-> <<>>]
  /\ UNCHANGED <<runs, results, errorText, summary, extractVars, waitLog, lastOk, serperKey, topics, pc, attempt_number, attemptLog, headlines,
                 level, permits, sleeps, searchCalls, news_data, composeVars,
                 synthVars, failedStage, response, limiterVars>>

\* lines 32-34: results = {}; the httpx client opens
ClientOpenOk ==
  /\ pc = "scrape"
  /\ spc = "start"
  /\ results' = <<>>
  /\ summarizeCalls' = Zeros(Len(topics))
  /\ i' = 1
  /\ spc' = "loop"
  /\ callLog' = [j \in 1..Len(topics) |-> <<>>]
  /\ UNCHANGED <<runs, errorText, summary, extractVars, waitLog, lastOk, serperKey, topics, pc, attempt_number, attemptLog, headlines,
                 level, permits, sleeps, searchCalls, news_data, composeVars,
                 synthVars, failedStage, response, limiterVars>>

\* line 34: the client's constructor or __aenter__ raises, outside the try
ClientOpenFail ==
  /\ pc = "scrape"
  /\ spc = "start"
  /\ results' = <<>>
  /\ summarizeCalls' = Zeros(Len(topics))
  /\ BodyRaise(ClientOpenError)
  /\ callLog' = [j \in 1..Len(topics) |-> <<>>]
  /\ UNCHANGED <<runs, errorText, summary, extractVars, waitLog, lastOk, serperKey, topics, attempt_number, i, headlines, level,
                 permits, sleeps, searchCalls, news_data, composeVars,
                 synthVars, limiterVars>>

\* line 36: async with self._rate_limiter, the next topic's permit
Acquire ==
  /\ pc = "scrape"
  /\ spc = "loop"
  /\ i <= Len(topics)
  /\ HasCapacity(level, 1)
  /\ level' = level + 1
  /\ permits' = permits + 1
  /\ spc' = "post"
  /\ UNCHANGED <<runs, callLog, errorText, summary, extractVars, waitLog, lastOk, serperKey, topics, pc, attempt_number, attemptLog, i, results,
                 headlines, sleeps, searchCalls, summarizeCalls, news_data,
                 composeVars, synthVars, failedStage, response, limiterVars>>

\* lines 39-53: the search call answers with a success status
PostOk ==
  /\ pc = "scrape"
  /\ spc = "post"
  /\ \E h \in HeadlineTexts : headlines' = h
  /\ searchCalls' = [searchCalls EXCEPT ![i] = @ + 1]
  /\ spc' = "summarize"
  /\ lastOk' = TRUE
  /\ callLog' = [callLog EXCEPT ![i] = Append(@, "search ok")]
  /\ UNCHANGED <<runs, errorText, summary, extractVars, waitLog, serperKey, topics, pc, attempt_number, attemptLog, i, results,
                 level, permits, sleeps, summarizeCalls, news_data, composeVars,
                 synthVars, failedStage, response, limiterVars>>

\* faulty variant of PostFail: no except branch, the exception leaves the body
PostFailPropagates ==
  /\ pc = "scrape"
  /\ spc = "post"
  /\ searchCalls' = [searchCalls EXCEPT ![i] = @ + 1]
  /\ \E e \in SearchErrors : BodyRaise(e)
  /\ lastOk' = FALSE
  /\ callLog' = [callLog EXCEPT ![i] = Append(@, "search failed")]
  /\ UNCHANGED <<runs, errorText, summary, extractVars, waitLog, serperKey, topics, attempt_number, i, results, headlines,
                 level, permits, sleeps, summarizeCalls, news_data, composeVars,
                 synthVars, limiterVars>>

\* faulty variant of PostFail: the except branch records nothing
PostFailOmitsEntry ==
  /\ pc = "scrape"
  /\ spc = "post"
  /\ searchCalls' = [searchCalls EXCEPT ![i] = @ + 1]
  /\ lastOk' = FALSE
  /\ spc' = "sleep"
  /\ callLog' = [callLog EXCEPT ![i] = Append(@, "search failed")]
  /\ UNCHANGED <<runs, errorText, summary, extractVars, waitLog, serperKey, topics, pc, attempt_number, attemptLog, i, results,
                 headlines, level, permits, sleeps, summarizeCalls, news_data,
                 composeVars, synthVars, failedStage, response, limiterVars>>

\* faulty variant of PostFail: the pacing delay is skipped after a failure
PostFailSkipsPacing ==
  /\ pc = "scrape"
  /\ spc = "post"
  /\ searchCalls' = [searchCalls EXCEPT ![i] = @ + 1]
  /\ errorText' \in SearchErrors
  /\ results' = DictSet(results, topics[i], "Error: " \o errorText', "failure")
  /\ i' = i + 1
  /\ spc' = "loop"
  /\ lastOk' = FALSE
  /\ callLog' = [callLog EXCEPT ![i] = Append(@, "search failed")]
  /\ UNCHANGED <<runs, summary, extractVars, waitLog, serperKey, topics, pc, attempt_number, attemptLog, headlines,
                 level, permits, sleeps, summarizeCalls, news_data, composeVars,
                 synthVars, failedStage, response, limiterVars>>

\* faulty variant of PostFail: the summarizer is called after the failure
PostFailThenSummarize ==
  /\ pc = "scrape"
  /\ spc = "post"
  /\ searchCalls' = [searchCalls EXCEPT ![i] = @ + 1]
  /\ errorText' \in SearchErrors
  /\ results' = DictSet(results, topics[i], "Error: " \o errorText', "failure")
  /\ spc' = "summarize"
  /\ lastOk' = FALSE
  /\ callLog' = [callLog EXCEPT ![i] = Append(@, "search failed")]
  /\ UNCHANGED <<runs, summary, extractVars, waitLog, serperKey, topics, pc, attempt_number, attemptLog, i, headlines,
                 level, permits, sleeps, summarizeCalls, news_data, composeVars,
                 synthVars, failedStage, response, limiterVars>>

\* lines 39-44 raise, lines 62-63: results[topic] = f"Error: {str(e)}"
PostFail ==
  /\ pc = "scrape"
  /\ spc = "post"
  /\ searchCalls' = [searchCalls EXCEPT ![i] = @ + 1]
  /\ errorText' \in SearchErrors
  /\ results' = DictSet(results, topics[i], "Error: " \o errorText', "failure")
  /\ spc' = "sleep"
  /\ lastOk' = FALSE
  /\ callLog' = [callLog EXCEPT ![i] = Append(@, "search failed")]
  /\ UNCHANGED <<runs, summary, extractVars, waitLog, serperKey, topics, pc, attempt_number, attemptLog, i, headlines,
                 level, permits, sleeps, summarizeCalls, news_data, composeVars,
                 synthVars, failedStage, response, limiterVars>>

\* faulty variant of SummarizeOk: the summarizer's text is recorded as it is
SummarizeOkNoPlaceholder ==
  /\ pc = "scrape"
  /\ spc = "summarize"
  /\ summarizeCalls' = [summarizeCalls EXCEPT ![i] = @ + 1]
  /\ summary' \in SummaryTexts
  /\ results' = DictSet(results, topics[i], summary', "summary")
  /\ spc' = "sleep"
  /\ lastOk' = TRUE
  /\ callLog' = [callLog EXCEPT ![i] = Append(@, "summarize ok")]
  /\ UNCHANGED <<runs, errorText, extractVars, waitLog, serperKey, topics, pc, attempt_number,
                 attemptLog, i, headlines, level, permits, sleeps, searchCalls,
                 news_data, composeVars, synthVars, failedStage, response, limiterVars>>

\* lines 56-61: results[topic] = summary or "No summary generated."
SummarizeOk ==
  /\ pc = "scrape"
  /\ spc = "summarize"
  /\ summarizeCalls' = [summarizeCalls EXCEPT ![i] = @ + 1]
  /\ summary' \in SummaryTexts
  /\ results' = IF summary' # ""
                THEN DictSet(results, topics[i], summary', "summary")
                ELSE DictSet(results, topics[i], "No summary generated.", "placeholder")
  /\ spc' = "sleep"
  /\ lastOk' = TRUE
  /\ callLog' = [callLog EXCEPT ![i] = Append(@, "summarize ok")]
  /\ UNCHANGED <<runs, errorText, extractVars, waitLog, serperKey, topics, pc, attempt_number, attemptLog, i, headlines,
                 level, permits, sleeps, searchCalls, news_data, composeVars,
                 synthVars, failedStage, response, limiterVars>>

\* the summarizer raises HTTPException (utils.py 142-143), lines 62-63
SummarizeFail ==
  /\ pc = "scrape"
  /\ spc = "summarize"
  /\ summarizeCalls' = [summarizeCalls EXCEPT ![i] = @ + 1]
  /\ errorText' = SummarizeErrorStr(GroqCause)
  /\ results' = DictSet(results, topics[i], "Error: " \o errorText', "failure")
  /\ spc' = "sleep"
  /\ lastOk' = FALSE
  /\ callLog' = [callLog EXCEPT ![i] = Append(@, "summarize failed")]
  /\ UNCHANGED <<runs, summary, extractVars, waitLog, serperKey, topics, pc, attempt_number, attemptLog, i, headlines,
                 level, permits, sleeps, searchCalls, news_data, composeVars,
                 synthVars, failedStage, response, limiterVars>>

\* line 65: await asyncio.sleep(1), then the loop's next topic
Sleep ==
  /\ pc = "scrape"
  /\ spc = "sleep"
  /\ level' = Leak(level, PacingSeconds * TicksPerSecond)
  /\ sleeps' = sleeps + 1
  /\ i' = i + 1
  /\ spc' = "loop"
  /\ UNCHANGED <<runs, callLog, errorText, summary, extractVars, waitLog, lastOk, serperKey, topics, pc, attempt_number, attemptLog, results,
                 headlines, permits, searchCalls, summarizeCalls, news_data,
                 composeVars, synthVars, failedStage, response, limiterVars>>

\* faulty variant of ClientCloseOk: a report of failures only is raised as an error
ClientCloseOkShortCircuit ==
  /\ pc = "scrape"
  /\ spc = "loop"
  /\ i > Len(topics)
  /\ attemptLog' = Append(attemptLog, "ok")
  /\ IF results # <<>> /\ \A j \in 1..Len(results) : results[j].kind = "failure"
     THEN /\ spc' = "raised"
          /\ Except("scrape", "No news for any topic")
          /\ UNCHANGED news_data
     ELSE /\ news_data' = [news_analysis |-> results]
          /\ spc' = "returned"
          /\ pc' = "compose"
          /\ UNCHANGED <<failedStage, response>>
  /\ UNCHANGED <<runs, callLog, errorText, summary, extractVars, waitLog, lastOk, serperKey, topics, attempt_number, i, results, headlines,
                 level, permits, sleeps, searchCalls, summarizeCalls, composeVars,
                 synthVars, limiterVars>>

\* lines 34 and 67: the loop is over, the client closes, the report is returned;
\* backend.py 21-23: news_data = results.get("news", {})
ClientCloseOk ==
  /\ pc = "scrape"
  /\ spc = "loop"
  /\ i > Len(topics)
  /\ attemptLog' = Append(attemptLog, "ok")
  /\ news_data' = [news_analysis |-> results]
  /\ spc' = "returned"
  /\ pc' = "compose"
  /\ UNCHANGED <<runs, callLog, errorText, summary, extractVars, waitLog, lastOk, serperKey, topics, attempt_number, i, results, headlines, level,
                 permits, sleeps, searchCalls, summarizeCalls, composeVars,
                 synthVars, failedStage, response, limiterVars>>

\* line 34: the client's __aexit__ raises, outside the try
ClientCloseFail ==
  /\ pc = "scrape"
  /\ spc = "loop"
  /\ i > Len(topics)
  /\ BodyRaise(ClientCloseError)
  /\ UNCHANGED <<runs, callLog, errorText, summary, extractVars, waitLog, lastOk, serperKey, topics, attempt_number, i, results, headlines, level,
                 permits, sleeps, searchCalls, summarizeCalls, news_data,
                 composeVars, synthVars, limiterVars>>

\* 0.2 s pass while the request is suspended in an await: the bucket leaks
Tick ==
  /\ pc = "scrape"
  /\ spc \in {"post", "summarize", "sleep", "wait"}
  /\ level > 0
  /\ level' = Leak(level, 1)
  /\ UNCHANGED <<runs, callLog, errorText, summary, extractVars, waitLog, lastOk, serperKey, topics, pc, spc, attempt_number, attemptLog, i,
                 results, headlines, permits, sleeps, searchCalls,
                 summarizeCalls, news_data, composeVars, synthVars, failedStage,
                 response, limiterVars>>

\* ------------------------------------------------------------ generate_broadcast_news
\* utils.py 90-96: one block per topic of the list whose report value is truthy
Block(topic, content) == [topic |-> topic, content |-> content]

RECURSIVE TopicBlocks(_, _)
TopicBlocks(nd, ts) ==
  IF ts = <<>> THEN <<>>
  ELSE LET topic == ts[Len(ts)]
           news_content == DictGet(nd.news_analysis, topic)
           before == TopicBlocks(nd, SubSeq(ts, 1, Len(ts) - 1))
       IN IF Truthy(news_content)
          THEN Append(before, Block(topic, news_content.value))
          ELSE before

\* utils.py 95
BlockText(b) == "TOPIC: " \o b.topic \o "\n\nOFFICIAL NEWS CONTENT:\n" \o b.content

RECURSIVE Join(_, _)
Join(sep, blocks) ==
  IF blocks = <<>> THEN ""
  ELSE IF Len(blocks) = 1 THEN BlockText(blocks[1])
  ELSE Join(sep, SubSeq(blocks, 1, Len(blocks) - 1)) \o sep \o BlockText(blocks[Len(blocks)])

\* utils.py 98-101
UserPrompt(blocks) ==
  "Create broadcast segments for these topics using available sources:\n\n"
    \o Join("\n\n--- NEW TOPIC ---\n\n", blocks)

\* faulty variant of ComposeOk: no model call when there is no block
ComposeOkSkipsEmpty ==
  /\ pc = "compose"
  /\ topic_blocks' = TopicBlocks(news_data, topics)
  /\ user_prompt' = UserPrompt(topic_blocks')
  /\ IF topic_blocks' = <<>>
     THEN /\ news_summary' = ""
          /\ UNCHANGED composeCalls
     ELSE /\ composeCalls' = composeCalls + 1
          /\ \E t \in BroadcastTexts : news_summary' = t
  /\ pc' = "synthesize"
  /\ UNCHANGED <<runs, extractVars, serperKey, topics, scrapeVars, news_data, synthVars,
                 failedStage, response, limiterVars>>

\* utils.py 90-115: the blocks, the prompt, one llm.invoke, its content returned
ComposeOk ==
  /\ pc = "compose"
  /\ topic_blocks' = TopicBlocks(news_data, topics)
  /\ user_prompt' = UserPrompt(topic_blocks')
  /\ composeCalls' = composeCalls + 1
  /\ \E t \in BroadcastTexts : news_summary' = t
  /\ pc' = "synthesize"
  /\ UNCHANGED <<runs, extractVars, serperKey, topics, scrapeVars, news_data, synthVars,
                 failedStage, response, limiterVars>>

\* faulty variant of ComposeFail: the exception is dropped, the synthesizer runs
ComposeFailSwallowed ==
  /\ pc = "compose"
  /\ topic_blocks' = TopicBlocks(news_data, topics)
  /\ user_prompt' = UserPrompt(topic_blocks')
  /\ composeCalls' = composeCalls + 1
  /\ news_summary' = ""
  /\ failedStage' = "compose"
  /\ pc' = "synthesize"
  /\ UNCHANGED <<runs, extractVars, serperKey, topics, scrapeVars, news_data, synthVars, response,
                 limiterVars>>

\* utils.py 110-118: llm.invoke raises, the composer re-raises
ComposeFail ==
  /\ pc = "compose"
  /\ topic_blocks' = TopicBlocks(news_data, topics)
  /\ user_prompt' = UserPrompt(topic_blocks')
  /\ composeCalls' = composeCalls + 1
  /\ Except("compose", ComposeError)
  /\ UNCHANGED <<runs, extractVars, serperKey, topics, scrapeVars, news_data, news_summary,
                 synthVars, limiterVars>>

\* ------------------------------------------------------------ text_to_audio_elevenlabs_sdk
\* utils.py 158-179: the audio is written to a file, its path returned
SynthOk ==
  /\ pc = "synthesize"
  /\ synthCalls' = synthCalls + 1
  /\ synthText' = news_summary
  /\ pc' = "read_audio"
  /\ UNCHANGED <<runs, extractVars, serperKey, topics, scrapeVars, news_data, composeVars,
                 failedStage, response, limiterVars>>

\* utils.py 160-161, 164, 180-181: no key, or the provider fails; re-raised
SynthFail ==
  /\ pc = "synthesize"
  /\ synthCalls' = synthCalls + 1
  /\ synthText' = news_summary
  /\ Except("synthesize", SynthError)
  /\ UNCHANGED <<runs, extractVars, serperKey, topics, scrapeVars, news_data, composeVars,
                 limiterVars>>

\* ------------------------------------------------------------ the response
\* backend.py 42-50: the file is there, its bytes are the response
RespondAudio ==
  /\ pc = "read_audio"
  /\ response' = AudioResponse(AudioPath)
  /\ pc' = "done"
  /\ UNCHANGED <<runs, extractVars, serperKey, topics, scrapeVars, news_data, composeVars,
                 synthVars, failedStage, limiterVars>>

\* backend.py 42: the file is not there (any more), the handler returns None
RespondNull ==
  /\ pc = "read_audio"
  /\ response' = NullResponse
  /\ pc' = "done"
  /\ UNCHANGED <<runs, extractVars, serperKey, topics, scrapeVars, news_data, composeVars,
                 synthVars, failedStage, limiterVars>>

Next ==
  \/ NewScraperOk
  \/ NewScraperRaise
  \/ ClientOpenOk
  \/ ClientOpenFail
  \/ RetryWait
  \/ Acquire
  \/ PostOk
  \/ PostFail
  \/ SummarizeOk
  \/ SummarizeFail
  \/ Sleep
  \/ ClientCloseOk
  \/ ClientCloseFail
  \/ Tick
  \/ ComposeOk
  \/ ComposeFail
  \/ SynthOk
  \/ SynthFail
  \/ RespondAudio
  \/ RespondNull

Spec == Init /\ [][Next]_vars

\* ------------------------------------------------------------ the shared limiter
\* NewsScraper._rate_limiter is a class attribute (line 14): the scrape_news
\* runs of all requests in flight acquire from the same bucket (line 36).
\* Each acquirer is one such acquire call, issued at any time.
Acquirers == 1..NumAcquirers

\* the tick instants of a closed window of one second
LogLen == TicksPerSecond + 1

RECURSIVE SumFirst(_, _)
SumFirst(log, k) == IF k = 0 THEN 0 ELSE log[k] + SumFirst(log, k - 1)

InitLimiter ==
  /\ serperKey = TRUE
  /\ topics = <<>>
  /\ pc = "limiter"
  /\ spc = "idle"
  /\ attempt_number = 0
  /\ attemptLog = <<>>
  /\ i = 0
  /\ results = <<>>
  /\ headlines = ""
  /\ lastOk = TRUE
  /\ level = 0
  /\ permits = 0
  /\ sleeps = 0
  /\ searchCalls = <<>>
  /\ summarizeCalls = <<>>
  /\ news_data = [news_analysis |-> <<>>]
  /\ topic_blocks = <<>>
  /\ user_prompt = ""
  /\ composeCalls = 0
  /\ news_summary = ""
  /\ synthCalls = 0
  /\ synthText = ""
  /\ failedStage = "none"
  /\ response = Pending
  /\ runs = <<>>
  /\ callLog = [j \in 1..Len(topics) |-> <<>>]
  /\ errorText = ""
  /\ summary = ""
  /\ data = <<>>
  /\ items = <<>>
  /\ headlineList = <<>>
  /\ combined_headlines = ""
  /\ waitLog = <<>>
  /\ acquired = {}
  /\ grantLog = [j \in 1..LogLen |-> 0]

\* acquire() of one caller: granted at this instant if the bucket has room
LimiterAcquire(a) ==
  /\ a \notin acquired
  /\ HasCapacity(level, 1)
  /\ level' = level + 1
  /\ permits' = permits + 1
  /\ acquired' = acquired \cup {a}
  /\ grantLog' = [grantLog EXCEPT ![1] = @ + 1]
  /\ UNCHANGED <<runs, callLog, errorText, summary, extractVars, waitLog, lastOk, serperKey, topics, pc, spc, attempt_number, attemptLog, i,
                 results, headlines, sleeps, searchCalls, summarizeCalls,
                 news_data, composeVars, synthVars, failedStage, response>>

\* 0.2 s pass: the bucket leaks one permit, the window moves on
LimiterTick ==
  /\ level' = Leak(level, 1)
  /\ grantLog' = <<0>> \o SubSeq(grantLog, 1, LogLen - 1)
  /\ UNCHANGED <<runs, callLog, errorText, summary, extractVars, waitLog, lastOk, serperKey, topics, pc, spc, attempt_number, attemptLog, i,
                 results, headlines, permits, sleeps, searchCalls,
                 summarizeCalls, news_data, composeVars, synthVars, failedStage,
                 response, acquired>>

NextLimiter ==
  \/ \E a \in Acquirers : LimiterAcquire(a)
  \/ LimiterTick

SpecLimiter == InitLimiter /\ [][NextLimiter]_vars

\* ------------------------------------------------------------ item extraction
\* news_scraper.py 45-53 as a function of the search response's JSON object.
\* The object has a subset of the keys "news" and "organic", each a list of
\* items; an item has a subset of the keys "title" and "snippet".
Digits == <<"0", "1", "2", "3", "4", "5", "6", "7", "8", "9">>
Numeral(n) == Digits[(n \div 10) + 1] \o Digits[(n % 10) + 1]

ItemKeys(shape) ==
  CASE shape % 4 = 0 -> {"title", "snippet"}
    [] shape % 4 = 1 -> {"title"}
    [] shape % 4 = 2 -> {"snippet"}
    [] OTHER -> {}

\* the j-th item of a list: its texts name the list and the position
Item(list, j, shape) ==
  [k \in ItemKeys(j + shape) |-> list \o "-" \o k \o "-" \o Numeral(j)]

ItemList(list, n, shape) == [j \in 1..n |-> Item(list, j, shape)]

ItemLists(list) == {ItemList(list, n, shape) : n \in 0..MaxItems, shape \in 0..3}

SearchResponses ==
  {<<>>}
  \cup {[k \in {"news"} |-> l] : l \in ItemLists("news")}
  \cup {[k \in {"organic"} |-> l] : l \in ItemLists("organic")}
  \cup {[k \in {"news", "organic"} |-> IF k = "news" THEN n ELSE o] :
          n \in ItemLists("news"), o \in ItemLists("organic")}

\* dict.get(key): None when the key is absent
NoList == [none |-> TRUE, list |-> <<>>]
SomeList(l) == [none |-> FALSE, list |-> l]
Get(d, k) == IF k \in DOMAIN d THEN SomeList(d[k]) ELSE NoList
\* dict.get(key, default) of an item
GetText(item, k, default) == IF k \in DOMAIN item THEN item[k] ELSE default
\* Python's a or b: a when a is truthy (None and [] are not), else b
Or(a, b) == IF ~a.none /\ a.list # <<>> THEN a ELSE b

\* line 50: f"{item.get('title', '')}: {item.get('snippet', '')}"
Headline(item) == GetText(item, "title", "") \o ": " \o GetText(item, "snippet", "")

\* faulty variant of FirstHeadlines: no slice
FirstHeadlinesUncut(l) == l

\* line 53: headlines[:10]
FirstHeadlines(l) == SubSeq(l, 1, Min(HeadlineLimit, Len(l)))

\* line 53: " ".join(...)
RECURSIVE JoinStrings(_, _)
JoinStrings(sep, strs) ==
  IF strs = <<>> THEN ""
  ELSE IF Len(strs) = 1 THEN strs[1]
  ELSE strs[1] \o sep \o JoinStrings(sep, Tail(strs))

InitExtract ==
  /\ serperKey = TRUE
  /\ topics = <<>>
  /\ pc = "extract"
  /\ spc = "idle"
  /\ attempt_number = 0
  /\ attemptLog = <<>>
  /\ i = 0
  /\ results = <<>>
  /\ headlines = ""
  /\ lastOk = TRUE
  /\ level = 0
  /\ permits = 0
  /\ sleeps = 0
  /\ searchCalls = <<>>
  /\ summarizeCalls = <<>>
  /\ news_data = [news_analysis |-> <<>>]
  /\ topic_blocks = <<>>
  /\ user_prompt = ""
  /\ composeCalls = 0
  /\ news_summary = ""
  /\ synthCalls = 0
  /\ synthText = ""
  /\ failedStage = "none"
  /\ response = Pending
  /\ runs = <<>>
  /\ callLog = [j \in 1..Len(topics) |-> <<>>]
  /\ errorText = ""
  /\ summary = ""
  /\ waitLog = <<>>
  /\ data \in SearchResponses
  /\ items = <<>>
  /\ headlineList = <<>>
  /\ combined_headlines = ""
  /\ acquired = {}
  /\ grantLog = <<>>

\* lines 48-53
Extract ==
  /\ pc = "extract"
  /\ items' = Or(Or(Get(data, "news"), Get(data, "organic")), SomeList(<<>>)).list
  /\ headlineList' = [j \in 1..Len(items') |-> Headline(items'[j])]
  /\ combined_headlines' = JoinStrings(" ", FirstHeadlines(headlineList'))
  /\ pc' = "extracted"
  /\ UNCHANGED <<runs, data, serperKey, topics, scrapeVars, news_data, composeVars,
                 synthVars, failedStage, response, limiterVars>>

NextExtract == Extract

SpecExtract == InitExtract /\ [][NextExtract]_vars

\* ------------------------------------------------------------ requests in flight
\* Two requests are handled at the same time by one event loop. Each handler
\* makes its own NewsScraper (backend.py 20) and its own scrape_news call, with
\* its own locals; _rate_limiter is a class attribute (line 14), one bucket for
\* both. A request runs until its next await (lines 34, 36, 39, 65 and the
\* decorator's sleep); the summarizer call of line 56 is synchronous, so lines
\* 45-63 run without any other request in between.
Runs == {1, 2}

\* the provider's answers to the calls of request r, marked with r
SearchErrorOf(r) == "Server error 500 to request " \o Numeral(r)
SummaryOf(r) == "Script to request " \o Numeral(r)

\* request.topics of a request: the first topics of A, B, A, B, ..., so that
\* the two requests ask for the same topics
TopicLists == {[j \in 1..n |-> IF j % 2 = 1 THEN "A" ELSE "B"] : n \in 0..MaxRunTopics}

NewRun(t) ==
  [topics |-> t, spc |-> "start", attempt_number |-> 1, i |-> 1, timer |-> 0,
   results |-> <<>>, report |-> <<>>]

\* faulty variant of DictOf: results is one dict for all requests
DictOfShared(r) == 1

\* line 32: results is a local of the call
DictOf(r) == r

\* both requests are about to call scrape_news; the bucket is empty, or full
\* of the permits that other callers got just before
InitRuns ==
  /\ serperKey = TRUE
  /\ topics = <<>>
  /\ pc = "runs"
  /\ spc = "idle"
  /\ attempt_number = 0
  /\ attemptLog = <<>>
  /\ i = 0
  /\ results = <<>>
  /\ headlines = ""
  /\ lastOk = TRUE
  /\ level \in {0, MaxRate}
  /\ permits = 0
  /\ sleeps = 0
  /\ searchCalls = <<>>
  /\ summarizeCalls = <<>>
  /\ news_data = [news_analysis |-> <<>>]
  /\ topic_blocks = <<>>
  /\ user_prompt = ""
  /\ composeCalls = 0
  /\ news_summary = ""
  /\ synthCalls = 0
  /\ synthText = ""
  /\ failedStage = "none"
  /\ response = Pending
  /\ runs \in [Runs -> {NewRun(t) : t \in TopicLists}]
  /\ callLog = [j \in 1..Len(topics) |-> <<>>]
  /\ errorText = ""
  /\ summary = ""
  /\ waitLog = <<>>
  /\ data = <<>>
  /\ items = <<>>
  /\ headlineList = <<>>
  /\ combined_headlines = ""
  /\ acquired = {}
  /\ grantLog = <<>>

\* lines 32-34 of request r
RunClientOpenOk(r) ==
  /\ runs[r].spc = "start"
  /\ runs' = [runs EXCEPT ![r].spc = "loop", ![r].i = 1, ![DictOf(r)].results = <<>>]
  /\ UNCHANGED level

\* an exception leaves the body, whose locals go with it: the decorator gives
\* up or waits
RunBodyRaise(r) ==
  IF StopAfterAttempt(runs[r].attempt_number)
  THEN runs' = [runs EXCEPT ![r].spc = "raised", ![DictOf(r)].results = <<>>]
  ELSE runs' = [runs EXCEPT ![r].spc = "wait",
                            ![DictOf(r)].results = <<>>,
                            ![r].timer = WaitExponential(runs[r].attempt_number)
                                           * TicksPerSecond]

\* line 34 raises
RunClientOpenFail(r) ==
  /\ runs[r].spc = "start"
  /\ RunBodyRaise(r)
  /\ UNCHANGED level

\* the decorator's sleep is over: the body is called again
RunRetryWait(r) ==
  /\ runs[r].spc = "wait"
  /\ runs[r].timer = 0
  /\ runs' = [runs EXCEPT ![r].spc = "start", ![r].attempt_number = @ + 1]
  /\ UNCHANGED level

\* line 36
RunAcquire(r) ==
  /\ runs[r].spc = "loop"
  /\ runs[r].i <= Len(runs[r].topics)
  /\ HasCapacity(level, 1)
  /\ level' = level + 1
  /\ runs' = [runs EXCEPT ![r].spc = "post"]

\* the entry that lines 39-63 write for the topic in hand
TopicOutcomes(r) ==
  {[value |-> "Error: " \o SearchErrorOf(r), kind |-> "failure"],
   [value |-> SummaryOf(r), kind |-> "summary"]}

\* the search call returns or raises; lines 45-63, then line 65 starts
RunPost(r) ==
  /\ runs[r].spc = "post"
  /\ \E o \in TopicOutcomes(r) :
       runs' = [runs EXCEPT
                  ![DictOf(r)].results =
                     DictSet(@, runs[r].topics[runs[r].i], o.value, o.kind),
                  ![r].spc = "sleep",
                  ![r].timer = PacingSeconds * TicksPerSecond]
  /\ UNCHANGED level

\* line 65 is over: the next topic
RunSleep(r) ==
  /\ runs[r].spc = "sleep"
  /\ runs[r].timer = 0
  /\ runs' = [runs EXCEPT ![r].spc = "loop", ![r].i = @ + 1]
  /\ UNCHANGED level

\* lines 34 (the client closes) and 67
RunClientCloseOk(r) ==
  /\ runs[r].spc = "loop"
  /\ runs[r].i > Len(runs[r].topics)
  /\ runs' = [runs EXCEPT ![r].spc = "returned", ![r].report = runs[DictOf(r)].results]
  /\ UNCHANGED level

\* line 34: closing the client raises
RunClientCloseFail(r) ==
  /\ runs[r].spc = "loop"
  /\ runs[r].i > Len(runs[r].topics)
  /\ RunBodyRaise(r)
  /\ UNCHANGED level

\* a sleep's remaining time after 0.2 s
Elapse(t) == IF t > 0 THEN t - 1 ELSE 0

\* line 36 finds the bucket full: acquire() waits and looks again
AcquireWaits(r) ==
  /\ runs[r].spc = "loop"
  /\ runs[r].i <= Len(runs[r].topics)
  /\ ~HasCapacity(level, 1)

\* 0.2 s pass: the bucket leaks, the sleeps in progress get shorter
RunsTick ==
  /\ level > 0 \/ \E r \in Runs : runs[r].timer > 0
  /\ level' = Leak(level, 1)
  /\ runs' = [r \in Runs |-> [runs[r] EXCEPT !.timer = Elapse(@)]]

RunStep(r) ==
  \/ RunClientOpenOk(r)
  \/ RunClientOpenFail(r)
  \/ RunRetryWait(r)
  \/ RunAcquire(r)
  \/ RunPost(r)
  \/ RunSleep(r)
  \/ RunClientCloseOk(r)
  \/ RunClientCloseFail(r)

runsOther == <<serperKey, topics, pc, spc, attempt_number, attemptLog, i, results,
               headlines, lastOk, permits, sleeps, searchCalls, summarizeCalls,
               waitLog, summary, errorText, callLog, news_data, composeVars,
               synthVars, failedStage, response, extractVars, limiterVars>>

NextRuns ==
  \/ \E r \in Runs : RunStep(r) /\ UNCHANGED runsOther
  \/ RunsTick /\ UNCHANGED runsOther

SpecRuns == InitRuns /\ [][NextRuns]_vars

\* the event loop runs every request that is ready, and time passes
FairSpecRuns ==
  /\ SpecRuns
  /\ \A r \in Runs : WF_vars(RunStep(r) /\ UNCHANGED runsOther)
  /\ WF_vars(RunsTick /\ UNCHANGED runsOther)

\* ============================================================ claims
Returned == spc = "returned"
Report == news_data.news_analysis

\* the topics of a list, each once, in the order of their first occurrence
RECURSIVE Dedup(_)
Dedup(s) ==
  IF s = <<>> THEN <<>>
  ELSE LET before == Dedup(SubSeq(s, 1, Len(s) - 1))
           x == s[Len(s)]
       IN IF \E j \in 1..Len(before) : before[j] = x THEN before ELSE Append(before, x)

HasDuplicates(s) == \E j, k \in 1..Len(s) : j < k /\ s[j] = s[k]

\* C1 as stated: for every non-empty topic list, duplicates included, the
\* returned report has as many entries as the list has topics, and iterating
\* it yields the topics in input order, whatever subset of the topics failed.
C1_EntryPerListPosition ==
  (Returned /\ topics # <<>>) =>
    /\ Len(Report) = Len(topics)
    /\ DictKeys(Report) = topics

\* C1 amended: the returned report has one entry per distinct topic string,
\* in the order of the topics' first occurrences, whatever subset failed; for
\* a list without repeated topics that is one entry per topic in input order.
C1_EntryPerDistinctTopic ==
  (Returned /\ topics # <<>>) =>
    /\ DictKeys(Report) = Dedup(topics)
    /\ Len(Report) = Cardinality({topics[j] : j \in 1..Len(topics)})
    /\ ~HasDuplicates(topics) => DictKeys(Report) = topics

\* a report of a list with a repeated topic, holding a failure and a summary
C1_Witness ==
  /\ Returned
  /\ Len(topics) = 3
  /\ HasDuplicates(topics)
  /\ Len(Report) = 2
  /\ \E j, k \in 1..Len(Report) :
       Report[j].kind = "failure" /\ Report[k].kind = "summary"

EntryOf(d, k) == d[DictIndex(d, k)]

IsErrorText(v) == Len(v) >= 7 /\ SubSeq(v, 1, 7) = "Error: "

\* a search or summarizer call returns by raising
FailedCallStep == spc \in {"post", "summarize"} /\ spc' # spc /\ ~lastOk'

C3_FailureOnlyAfterRetries ==
  (pc = "scrape" /\ spc = "sleep" /\ ~lastOk) => searchCalls[i] >= MaxAttempts

AllRaised(log) == \A k \in 1..Len(log) : log[k] # "ok"

\* C4: the body wrapped by the retry decorator is never executed a 4th time;
\* when it raised on every one of 3 executions, scrape_news raises to its
\* caller (RetryError carrying the last attempt's exception) and returns
\* nothing; and it raises only then.
C4_RetryExhaustion ==
  /\ attempt_number <= MaxAttempts
  /\ Len(attemptLog) <= MaxAttempts
  /\ (Len(attemptLog) = MaxAttempts /\ AllRaised(attemptLog)) =>
       /\ spc = "raised"
       /\ pc = "done"
       /\ failedStage = "scrape"
       /\ response = ErrorResponse(RetryErrorStr(attemptLog[MaxAttempts]))
       /\ composeCalls = 0
  /\ spc = "raised" => (Len(attemptLog) = MaxAttempts /\ AllRaised(attemptLog))
  /\ spc = "wait" => (Len(attemptLog) = attempt_number /\ AllRaised(attemptLog))

\* three executions raised, the last one differently from the first two
C4_Witness ==
  /\ spc = "raised"
  /\ attemptLog = <<ClientOpenError, ClientOpenError, ClientCloseError>>
  /\ response.detail = RetryErrorStr(ClientCloseError)

\* C5 as stated: the prompt sent to the composer's model holds a labeled block
\* for a topic only if that topic's result is a non-empty Summary; a topic
\* whose search or summarizer call failed, or whose summarizer returned empty
\* text, gets no block.
C5_BlocksOnlyForSummaries ==
  composeCalls > 0 =>
    \A b \in 1..Len(topic_blocks) :
      EntryOf(Report, topic_blocks[b].topic).kind = "summary"

AllFailed(d) == \A j \in 1..Len(d) : d[j].kind = "failure"

\* the composer ran and returned its model's text
ComposerReturned ==
  /\ Returned
  /\ pc \in {"synthesize", "read_audio"} \/ (pc = "done" /\ failedStage # "compose")

\* C6: when no topic has usable content (every entry of the report is a
\* Failure, or the report is empty), the composer has made exactly one model
\* call once it is over; it raises only what that call raised, and otherwise
\* hands the call's text on to the synthesizer.
C6_ComposerAlwaysCalls ==
  (Returned /\ AllFailed(Report) /\ pc # "compose") =>
    /\ composeCalls = 1
    /\ failedStage = "compose" => response = ErrorResponse(ComposeError)
    /\ ComposerReturned => news_summary \in BroadcastTexts
    /\ synthCalls > 0 => synthText = news_summary

\* the composer returned its model's text for a report of two failures
C6_Witness ==
  /\ Returned
  /\ Len(Report) = 2
  /\ AllFailed(Report)
  /\ pc = "synthesize"
  /\ composeCalls = 1
  /\ news_summary = "Broadcast"

\* C8: a failure of the composer or of the synthesizer ends the request with
\* one error response (status 500) that carries the failure's text and no
\* audio; after a composer failure the synthesizer is never called; and the
\* stages run in the order aggregate, compose, synthesize, each at most once.
C8_ComposeSynthFailuresAbort ==
  /\ failedStage \in {"compose", "synthesize"} =>
       /\ pc = "done"
       /\ response.kind = "error"
       /\ response.status = 500
       /\ response.body = ""
       /\ response.detail = (IF failedStage = "compose" THEN ComposeError ELSE SynthError)
  /\ failedStage = "compose" => synthCalls = 0
  /\ composeCalls <= 1 /\ synthCalls <= 1
  /\ composeCalls > 0 => Returned
  /\ synthCalls > 0 => (composeCalls = 1 /\ failedStage # "compose")
  /\ (pc = "done") = (response # Pending)

\* the composer failed: an error response, and no synthesizer call
C8_Witness ==
  /\ failedStage = "compose"
  /\ response = ErrorResponse(ComposeError)
  /\ synthCalls = 0
  /\ Len(Report) >= 1

\* C9 as stated: the only way a request ends in a top-level failure response
\* is a failure of the composer or of the synthesizer.
C9_OnlyComposerOrSynthesizerFail ==
  response.kind = "error" => failedStage \in {"compose", "synthesize"}

\* C9 amended: an aggregation in which every topic failed still goes through
\* composition and synthesis; a request ends in a top-level failure response
\* only when the composer or the synthesizer fails, when NewsScraper() raises
\* for a missing SERPER_API_KEY, or when scrape_news raises RetryError after
\* its body raised outside the per-topic try on all 3 attempts; a failed
\* search or summarizer call never causes one.
C9_TopLevelFailureCauses ==
  /\ response.kind = "error" =>
       /\ failedStage \in {"new_scraper", "scrape", "compose", "synthesize"}
       /\ failedStage = "new_scraper" => ~serperKey
       /\ failedStage = "scrape" =>
            /\ spc = "raised"
            /\ Len(attemptLog) = MaxAttempts
            /\ \A k \in 1..MaxAttempts :
                 attemptLog[k] \in {ClientOpenError, ClientCloseError}
            /\ response.detail = RetryErrorStr(attemptLog[MaxAttempts])
  /\ (Returned /\ Report # <<>> /\ AllFailed(Report)) =>
       /\ pc \in {"compose", "synthesize", "read_audio", "done"}
       /\ pc \in {"synthesize", "read_audio", "done"} => composeCalls = 1
       /\ (pc \in {"read_audio", "done"} /\ failedStage # "compose") => synthCalls = 1
       /\ response.kind = "error" => failedStage \in {"compose", "synthesize"}

\* every topic failed and the request still ended with audio
C9_Witness ==
  /\ Returned
  /\ Len(Report) = 2
  /\ AllFailed(Report)
  /\ response.kind = "audio"
  /\ composeCalls = 1
  /\ synthCalls = 1

\* C10: for an empty topic list no permit is acquired, no search or
\* summarizer call is reached and no pacing delay is slept; a returned report
\* is empty; the composer, once it ran, made one call with zero labeled
\* blocks; and the synthesizer, once called, got the composer's output.
C10_EmptyTopicList ==
  topics = <<>> =>
    /\ permits = 0
    /\ sleeps = 0
    /\ level = 0
    /\ spc \notin {"post", "summarize", "sleep"}
    /\ results = <<>>
    /\ Returned => Report = <<>>
    /\ (Returned /\ pc # "compose") =>
         /\ composeCalls = 1
         /\ topic_blocks = <<>>
         /\ user_prompt = UserPrompt(<<>>)
    /\ synthCalls > 0 => (synthCalls = 1 /\ ComposerReturned /\ synthText = news_summary)
    /\ (ComposerReturned /\ pc # "synthesize") => synthCalls = 1

\* the empty list went through all three stages
C10_Witness ==
  /\ topics = <<>>
  /\ Returned
  /\ Report = <<>>
  /\ composeCalls = 1
  /\ synthCalls = 1
  /\ synthText = "Broadcast"
  /\ response.kind = "audio"

ClampedWait(k) ==
  LET raw == Min(WaitMax, WaitMultiplier * Pow2(k - 1))
  IN IF raw < WaitMin THEN WaitMin ELSE IF raw > WaitMax THEN WaitMax ELSE raw

\* C11: the wait before attempt k + 1 is min(10, 1 * 2^(k-1)) clamped to
\* [2, 10] seconds: every wait lies in [2, 10], waits never decrease from one
\* attempt to the next, and a call that used its 3 attempts waited 2 s and 2 s.
C11_BackoffWaits ==
  /\ \A k \in (IF pc = "new_scraper" THEN 1..MaxBackoffAttempt ELSE {}) :
       /\ WaitExponential(k) = ClampedWait(k)
       /\ WaitExponential(k) >= WaitMin /\ WaitExponential(k) <= WaitMax
       /\ WaitExponential(k) <= WaitExponential(k + 1)
       /\ k >= 5 => WaitExponential(k) = WaitMax
  /\ Len(waitLog) <= MaxAttempts - 1
  /\ \A j \in 1..Len(waitLog) :
       /\ waitLog[j] = ClampedWait(j)
       /\ waitLog[j] = 2
  /\ (pc = "scrape" /\ spc \notin {"wait", "raised"}) => Len(waitLog) = attempt_number - 1
  /\ spc = "raised" => waitLog = <<2, 2>>

\* the second attempt failed too, after a wait of 2 s, and the third is made
\* after another 2 s
C11_Witness ==
  /\ attempt_number = 3
  /\ spc = "start"
  /\ waitLog = <<2, 2>>
  /\ WaitExponential(4) = 8

\* search calls made so far, over all topic positions
TotalSearchCalls == SumFirst(searchCalls, Len(searchCalls))

\* C12: in a run the steps of a topic come in the order permit, search call,
\* summarizer call, entry, pacing delay of 1 s. A search call is made only
\* with a permit acquired for it; the pacing delay follows every topic,
\* failed or not; and a permit is acquired only when the pacing delay of
\* every topic before it is over, so that the run never has two search calls
\* in flight.
C12_StepOrder ==
  /\ [](pc = "scrape" =>
          /\ TotalSearchCalls <= permits
          /\ spc = "post" => (permits = TotalSearchCalls + 1 /\ sleeps = TotalSearchCalls)
          /\ spc \in {"summarize", "sleep"} =>
               (permits = TotalSearchCalls /\ sleeps = TotalSearchCalls - 1)
          /\ spc = "summarize" => (lastOk /\ summarizeCalls[i] = 0)
          /\ spc = "sleep" => DictHas(results, topics[i])
          /\ spc \in {"start", "loop", "wait"} =>
               (permits = TotalSearchCalls /\ sleeps = TotalSearchCalls /\ level = 0))
  /\ [][/\ permits' # permits => (spc = "loop" /\ spc' = "post" /\ sleeps = permits)
        /\ searchCalls' # searchCalls => (spc = "post" /\ spc' \in {"summarize", "sleep"})
        /\ (summarizeCalls' # summarizeCalls /\ spc # "start") =>
             (spc = "summarize" /\ spc' = "sleep")
        /\ (results' # results /\ spc # "start") => spc' = "sleep"
        /\ sleeps' # sleeps =>
             /\ spc = "sleep" /\ spc' = "loop"
             /\ sleeps' = sleeps + 1
             /\ i' = i + 1
             /\ level' = 0]_vars

\* the second topic's permit is acquired after the pacing delay of the first
\* topic, which had failed
C12_Witness ==
  /\ pc = "scrape"
  /\ spc = "post"
  /\ i = 2
  /\ permits = 2
  /\ sleeps = 1
  /\ results # <<>>
  /\ results[1].kind = "failure"

\* ------------------------------------------------------------ SpecExtract
HasItems(key) == key \in DOMAIN data /\ data[key] # <<>>

TextOr(item, key) == IF key \in DOMAIN item THEN item[key] ELSE ""

\* the first k items of the item list as one text
RECURSIVE TextOfFirst(_)
TextOfFirst(k) ==
  IF k = 0 THEN ""
  ELSE (IF k = 1 THEN "" ELSE TextOfFirst(k - 1) \o " ")
       \o TextOr(items[k], "title") \o ": " \o TextOr(items[k], "snippet")

\* C13: for a search response with a success status the item list is its
\* "news" list when that is present and not empty, else its "organic" list,
\* else the empty list, and the selection always yields a result; the combined
\* headline text is the first 10 items at most, in the provider's order, each
\* as "title: snippet" with "" for a missing title or snippet, with one space
\* between two items.
C13_ItemExtraction ==
  /\ pc = "extract" => ENABLED Extract
  /\ pc = "extracted" =>
       /\ items = IF HasItems("news") THEN data["news"]
                  ELSE IF "organic" \in DOMAIN data THEN data["organic"]
                  ELSE <<>>
       /\ combined_headlines = TextOfFirst(Min(Len(items), 10))

\* a response without news and with more than 10 organic items, the first of
\* which has no snippet
C13_Witness ==
  /\ pc = "extracted"
  /\ ~HasItems("news")
  /\ "news" \in DOMAIN data
  /\ "organic" \in DOMAIN data
  /\ Len(items) = 11
  /\ DOMAIN items[1] = {"title"}
  /\ items[11] = data["organic"][11]
  /\ combined_headlines = TextOfFirst(10)

\* ------------------------------------------------------------ Spec, continued
\* the values a report entry may have
SummaryValues == SummaryTexts \ {""}
FailureValues == {"Error: " \o e : e \in SearchErrors \cup {SummarizeErrorStr(GroqCause)}}

\* C16: every value recorded in the report is a non-empty string: the
\* summarizer's text as it is when that is not empty, "No summary generated."
\* when the summarizer returned the empty text, and "Error: " followed by the
\* failure's description when the search or the summarizer call failed.
C16_EntryValues ==
  /\ \A j \in 1..Len(results) :
       /\ results[j].value # ""
       /\ results[j].value \in SummaryValues \cup {"No summary generated."} \cup FailureValues
  /\ \A j \in 1..Len(news_data.news_analysis) :
       /\ news_data.news_analysis[j].value # ""
       /\ news_data.news_analysis[j] \in {results[k] : k \in 1..Len(results)}
  /\ (pc = "scrape" /\ spc = "sleep") =>
       /\ DictHas(results, topics[i])
       /\ EntryOf(results, topics[i]).value =
            IF ~lastOk THEN "Error: " \o errorText
            ELSE IF summary = "" THEN "No summary generated."
            ELSE summary
       /\ lastOk => summarizeCalls[i] = 1

\* the summarizer returned the empty text and the placeholder was recorded,
\* after a search call of an earlier topic had failed without a description
C16_Witness ==
  /\ pc = "scrape"
  /\ spc = "sleep"
  /\ lastOk
  /\ summary = ""
  /\ errorText = ""
  /\ Len(results) = 2
  /\ results[1].value = "Error: "
  /\ results[2].value = "No summary generated."

\* position j is the last one of the list with its topic
LastPosition(j) == \A k \in (j + 1)..Len(topics) : topics[k] # topics[j]

CallFailed(log) ==
  log # <<>> /\ log[Len(log)] \in {"search failed", "summarize failed"}

\* the loop of this body execution is done with position j
Processed(j) == j < i \/ (j = i /\ spc = "sleep")

\* C17: a retry of scrape_news starts from an empty report and goes through
\* the topics again from the first one: the report holds the topics this
\* attempt has processed and nothing else, the report returned was written
\* by the calls of the last attempt, and no topic position causes more than 3
\* search calls during the whole call.
C17_RetryStartsAfresh ==
  /\ [](/\ (pc = "scrape" /\ spc \in {"loop", "post", "summarize", "sleep"}) =>
             /\ DictKeys(results) =
                  Dedup(SubSeq(topics, 1, IF spc = "sleep" THEN i ELSE i - 1))
             /\ \A j \in 1..Len(topics) :
                  callLog[j] # <<>> <=> (Processed(j) \/ (j = i /\ spc = "summarize"))
        /\ \A j \in 1..Len(searchCalls) :
             searchCalls[j] <= MaxAttempts /\ searchCalls[j] <= attempt_number
        /\ Returned =>
             /\ DictKeys(Report) = Dedup(topics)
             /\ \A j \in 1..Len(topics) :
                  /\ callLog[j] # <<>>
                  /\ LastPosition(j) =>
                       (EntryOf(Report, topics[j]).kind = "failure" <=> CallFailed(callLog[j])))
  /\ [][(spc = "start" /\ spc' = "loop") =>
          /\ results' = <<>>
          /\ i' = 1
          /\ \A j \in 1..Len(topics) : callLog'[j] = <<>>]_vars

\* the third attempt returns the report after two attempts were abandoned
\* when the client was closed; the only topic had failed before and has a
\* summary now
C17_Witness ==
  /\ Returned
  /\ attempt_number = 3
  /\ Len(attemptLog) = 3
  /\ attemptLog[1] = ClientCloseError
  /\ attemptLog[2] = ClientCloseError
  /\ topics = <<"A">>
  /\ searchCalls = <<3>>
  /\ errorText # ""
  /\ Report = <<Entry("A", "Script", "summary")>>

\* C18: in one execution of the body every topic position causes one search
\* call and at most one summarizer call; the summarizer is called exactly
\* when the search call returned with a success status, also when no
\* headline was extracted; and after a failed search or summarizer call no
\* other provider call is made for that position.
C18_ProviderCallsPerTopic ==
  \A j \in 1..Len(callLog) :
    /\ summarizeCalls[j] <= 1
    /\ summarizeCalls[j] = Len(callLog[j]) - (IF callLog[j] = <<>> THEN 0 ELSE 1)
    /\ (Processed(j) /\ spc \in {"loop", "post", "summarize", "sleep", "returned"}) =>
         callLog[j] \in {<<"search failed">>, <<"search ok", "summarize ok">>,
                         <<"search ok", "summarize failed">>}
    /\ (j = i /\ spc = "summarize") => callLog[j] = <<"search ok">>
    /\ callLog[j] \in {<<>>, <<"search ok">>, <<"search failed">>,
                       <<"search ok", "summarize ok">>,
                       <<"search ok", "summarize failed">>}

\* the summarizer was called for a topic without headlines, after the search
\* call of the topic before had failed
C18_Witness ==
  /\ pc = "scrape"
  /\ spc = "sleep"
  /\ i = 2
  /\ headlines = ""
  /\ callLog[1] = <<"search failed">>
  /\ callLog[2] = <<"search ok", "summarize ok">>
  /\ summarizeCalls = <<0, 1>>

\* ------------------------------------------------------------ FairSpecRuns
RunOver(r) == runs[r].spc \in {"returned", "raised"}

\* C14: when the event loop is fair and every provider call returns, each
\* acquire of the rate limiter is granted in the end, also one that found the
\* bucket full, and every run over its topics ends, with a report or with the
\* failure that the retries hand on, while another run shares the limiter.
C14_RunsTerminate ==
  /\ <>(\A r \in Runs : RunOver(r))
  /\ \A r \in Runs : AcquireWaits(r) ~> (runs[r].spc = "post")

\* the first run's acquire finds the bucket full, the second run having
\* taken the last permit for a search call that is in flight
C14_Witness ==
  /\ AcquireWaits(1)
  /\ level = MaxRate
  /\ runs[2].spc = "post"
  /\ runs[1].topics = <<"A">>

\* ------------------------------------------------------------ SpecRuns
\* what the calls of request r can put into a report
OwnValues(r) == {"Error: " \o SearchErrorOf(r), SummaryOf(r)}

\* the topics that the loop of request r is done with
DoneTopics(r) ==
  SubSeq(runs[r].topics, 1,
         IF runs[r].spc = "sleep" THEN runs[r].i
         ELSE IF runs[r].spc \in {"loop", "post", "returned"} THEN runs[r].i - 1
         ELSE 0)

\* C15: two runs that interleave at their awaits share the limiter's bucket
\* and nothing else: the report of each has entries for its own topics only,
\* with values that its own search and summarizer calls gave, and a step of
\* one run never adds, changes or removes an entry of the other.
C15_RunsIsolated ==
  /\ [](\A r \in Runs :
          /\ runs[r].spc \in {"loop", "post", "sleep", "returned"} =>
               DictKeys(runs[r].results) = Dedup(DoneTopics(r))
          /\ \A j \in 1..Len(runs[r].results) : runs[r].results[j].value \in OwnValues(r)
          /\ runs[r].spc = "returned" =>
               /\ runs[r].report = runs[r].results
               /\ DictKeys(runs[r].report) = Dedup(runs[r].topics))
  /\ [][\A r \in Runs :
          /\ runs'[r].results # runs[r].results => runs'[r].spc # runs[r].spc
          /\ runs'[r].report # runs[r].report => runs'[r].spc = "returned"
          /\ runs'[r].spc # runs[r].spc =>
               \A q \in Runs \ {r} : runs'[q] = runs[q]]_vars

\* both runs have recorded the same topic, each with the value of its own
\* calls, the second having returned while the first is in its pacing delay
C15_Witness ==
  /\ runs[1].spc = "sleep"
  /\ runs[1].timer > 0
  /\ runs[2].spc = "returned"
  /\ runs[1].results = <<Entry("A", "Error: " \o SearchErrorOf(1), "failure")>>
  /\ runs[2].report = <<Entry("A", SummaryOf(2), "summary")>>
====
